---- MODULE Spec2Model ----
(***************************************************************************)
(* Missingness report over a Hail table (hail_missing/missingness.py).     *)
(*                                                                         *)
(* The schema walker count_missing_and_keys builds, per field path, two    *)
(* aggregation expressions (a count and a key collection); ht.aggregate    *)
(* evaluates them over the rows; MissingnessReport wraps the result in a   *)
(* data frame, classifies failures and caches the frame as a CSV file.     *)
(***************************************************************************)
EXTENDS Integers, Sequences, FiniteSets, TLC

VARIABLES
    ht,        \* the Hail table in scope: [schema, key, rows]
    missing,   \* what the last direct count_missing_fields_with_keys(ht) gave
    report,    \* the last MissingnessReport(...) call: arguments, steps, df or error
    cache      \* content of the file at cache_path (Absent or the CSV text)

vars == <<ht, missing, report, cache>>

\* ------------------------------------------------------------------ bounds
MaxRows == 2
MaxCells == 3

\* ------------------------------------------------------------ Python dicts
\* An insertion-ordered dict is a sequence of [k, v] entries with distinct k.
RECURSIVE DictFind(_, _, _)
DictFind(d, k, i) ==
    IF i > Len(d) THEN 0
    ELSE IF d[i].k = k THEN i
    ELSE DictFind(d, k, i + 1)

DictHas(d, k) == DictFind(d, k, 1) # 0

DictGet(d, k) == d[DictFind(d, k, 1)].v

DictSet(d, k, v) ==
    LET i == DictFind(d, k, 1)
    IN IF i = 0 THEN Append(d, [k |-> k, v |-> v])
       ELSE [d EXCEPT ![i] = [k |-> k, v |-> v]]

DictKeys(d) == [i \in 1..Len(d) |-> d[i].k]

DictValues(d) == [i \in 1..Len(d) |-> d[i].v]

\* ------------------------------------------------------------ Hail types
\* tstruct / tarray<tstruct> / anything else (a leaf for the walker).
TScalar == [kind |-> "Scalar", fields |-> <<>>]

TStruct(fields) == [kind |-> "Struct", fields |-> fields]

TArrayStruct(fields) == [kind |-> "ArrayStruct", fields |-> fields]

Fld(name, type) == [name |-> name, type |-> type]

\* ------------------------------------------------------------ Hail values
\* t: "NA" (missing), "S" (a present leaf, v its payload), "R" (a struct,
\* c its fields as [n, val] entries), "A" (an array, c its elements).
NA == [t |-> "NA", v |-> "", c |-> <<>>]

Leaf(x) == [t |-> "S", v |-> x, c |-> <<>>]

StructVal(entries) == [t |-> "R", v |-> "", c |-> entries]

ArrayVal(elems) == [t |-> "A", v |-> "", c |-> elems]

IsNA(val) == val.t = "NA"

RECURSIVE FieldIndex(_, _, _)
FieldIndex(entries, name, i) ==
    IF i > Len(entries) THEN 0
    ELSE IF entries[i].n = name THEN i
    ELSE FieldIndex(entries, name, i + 1)

\* struct.name on a value: NA when the struct itself is NA.
GetField(val, name) ==
    IF val.t # "R" THEN NA
    ELSE val.c[FieldIndex(val.c, name, 1)].val

\* ------------------------------------------------------ Hail expressions
\* A row-level expression is the chain of steps applied to ht.row: a field
\* name selects a struct field, Idx0 is the indexing expr[0].
Idx0 == "[0]"

OutOfBounds == [t |-> "ERR", v |-> "", c |-> <<>>]

IsErr(val) == val.t = "ERR"

\* One step of evaluation. Field access and indexing of NA give NA; indexing
\* position 0 of a present, empty array is Hail's "array index out of bounds".
Step(val, s) ==
    IF IsErr(val) THEN val
    ELSE IF s = Idx0 THEN
        IF val.t # "A" THEN NA
        ELSE IF Len(val.c) = 0 THEN OutOfBounds
        ELSE val.c[1]
    ELSE GetField(val, s)

RECURSIVE EvalFrom(_, _, _)
EvalFrom(val, expr, i) ==
    IF i > Len(expr) THEN val
    ELSE EvalFrom(Step(val, expr[i]), expr, i + 1)

Eval(expr, row) == EvalFrom(row, expr, 1)

\* A boolean expression built from hl.bool(False), hl.is_missing(e) and | is
\* the sequence of the expressions e whose missingness it joins:
\* <<>> is hl.bool(False), <<e>> is hl.is_missing(e), p \o q is p | q.
BoolFalse == <<>>

is_missing(expr) == <<expr>>

Or(p, q) == p \o q

\* "T", "F", or "E" when an operand that is evaluated raises. | is evaluated
\* left to right and stops at the first true operand.
RECURSIVE EvalBoolFrom(_, _, _)
EvalBoolFrom(p, row, i) ==
    IF i > Len(p) THEN "F"
    ELSE LET val == Eval(p[i], row)
         IN IF IsErr(val) THEN "E"
            ELSE IF IsNA(val) THEN "T"
            ELSE EvalBoolFrom(p, row, i + 1)

EvalBool(p, row) == EvalBoolFrom(p, row, 1)

\* ---------------------------------------------------------- aggregators
\* hl.agg.filter(~parent_missing, hl.agg.count_where(pred))
AggCountWhere(parent_missing, pred) ==
    [kind |-> "count_where", guard |-> parent_missing, pred |-> pred,
     arr |-> <<>>, name |-> ""]

\* hl.agg.filter(~parent_missing, hl.agg.sum(expr.fold(
\*     lambda accum, struct: accum + if_else(is_missing(struct[name]), 1, 0), 0)))
AggSumFold(parent_missing, expr, name) ==
    [kind |-> "sum_fold", guard |-> parent_missing, pred |-> <<>>,
     arr |-> expr, name |-> name]

\* The key collection without its ~parent_missing filter.
AggCollectUnguarded(parent_missing, pred, keys) ==
    [guard |-> BoolFalse, pred |-> pred, keys |-> keys]

\* hl.agg.filter(~parent_missing & pred, hl.agg.collect(keys))
AggCollect(parent_missing, pred, keys) ==
    [guard |-> parent_missing, pred |-> pred, keys |-> keys]

\* ------------------------------------------------- count_missing_and_keys
\* A StructExpression is its struct type's fields together with the row-level
\* expression that yields it.
StructExpr(fields, expr) == [fields |-> fields, expr |-> expr]

EmptyAcc == [results |-> <<>>, missing_keys |-> <<>>]

\* results[f"{prefix}.{name}"] = value for every entry of nested, in order.
RECURSIVE MergePrefixed(_, _, _, _)
MergePrefixed(d, prefix, nested, i) ==
    IF i > Len(nested) THEN d
    ELSE LET d2 == DictSet(d, prefix \o "." \o nested[i].k, nested[i].v)
         IN IF Len(d2) = 0 THEN d2
            ELSE MergePrefixed(d2, prefix, nested, i + 1)

\* The recursion's second argument for a struct field: current_field_missing
\* alone (line 79). Missingness of an outer struct reaches it through
\* evaluation: a field of a missing struct is itself missing.
RecurseGuardUnguarded(parent_missing, current_field_missing) == BoolFalse

RecurseGuard(parent_missing, current_field_missing) == current_field_missing

\* array_field_missing (lines 122-124): the array is missing, or the field of
\* its element at position 0 is.
ArrayFieldMissingAll(current_field_missing, array_struct_expr) ==
    current_field_missing

ArrayFieldMissing(current_field_missing, array_struct_expr) ==
    Or(current_field_missing, is_missing(array_struct_expr))

RECURSIVE count_missing_and_keys(_, _, _)
RECURSIVE FieldLoop(_, _, _, _, _)
RECURSIVE ArrayFieldLoop(_, _, _, _, _, _, _)

\* The body of "for array_struct_field_name, array_struct_expr in expr[0].items()"
\* (lines 94-141), from field i on; acc holds array_results/array_missing_keys.
ArrayFieldLoop(elemFields, expr, parent_missing, current_field_missing, keys, i, acc) ==
    IF i > Len(elemFields) THEN acc
    ELSE
    LET g == elemFields[i]
        array_struct_expr == expr \o <<Idx0, g.name>>
        isStruct == g.type.kind = "Struct"
        nested ==
            IF g.type.kind \in {"Struct", "ArrayStruct"}
            THEN count_missing_and_keys(
                     StructExpr(g.type.fields,
                                IF isStruct THEN array_struct_expr
                                ELSE Append(array_struct_expr, Idx0)),
                     current_field_missing, keys)
            ELSE EmptyAcc
        r1 == MergePrefixed(acc.results, g.name, nested.results, 1)
        k1 == MergePrefixed(acc.missing_keys, g.name, nested.missing_keys, 1)
        array_field_missing ==
            ArrayFieldMissing(current_field_missing, array_struct_expr)
        r2 == DictSet(r1, g.name, AggSumFold(parent_missing, expr, g.name))
        k2 == DictSet(k1, g.name,
                      AggCollect(parent_missing, array_field_missing, keys))
    IN IF Len(r2) # Len(k2) THEN EmptyAcc
       ELSE ArrayFieldLoop(elemFields, expr, parent_missing,
                           current_field_missing, keys, i + 1,
                           [results |-> r2, missing_keys |-> k2])

\* The body of "for field_name, expr in schema.items()" (lines 67-145), from
\* field i on.
FieldLoop(schema, parent_missing, keys, i, acc) ==
    IF i > Len(schema.fields) THEN acc
    ELSE
    LET f == schema.fields[i]
        expr == Append(schema.expr, f.name)
        current_field_missing == is_missing(expr)
        r1 == DictSet(acc.results, f.name,
                      AggCountWhere(parent_missing, current_field_missing))
        k1 == DictSet(acc.missing_keys, f.name,
                      AggCollect(parent_missing, current_field_missing, keys))
        nested ==
            IF f.type.kind = "Struct"
            THEN count_missing_and_keys(
                     StructExpr(f.type.fields, expr),
                     RecurseGuard(parent_missing, current_field_missing), keys)
            ELSE IF f.type.kind = "ArrayStruct"
            THEN ArrayFieldLoop(f.type.fields, expr, parent_missing,
                                current_field_missing, keys, 1, EmptyAcc)
            ELSE EmptyAcc
        r2 == MergePrefixed(r1, f.name, nested.results, 1)
        k2 == MergePrefixed(k1, f.name, nested.missing_keys, 1)
    IN IF Len(r2) # Len(k2) THEN EmptyAcc
       ELSE FieldLoop(schema, parent_missing, keys, i + 1,
                      [results |-> r2, missing_keys |-> k2])

count_missing_and_keys(schema, parent_missing, keys) ==
    FieldLoop(schema, parent_missing, keys, 1, EmptyAcc)

\* ------------------------------------------------------------ ht.aggregate
\* Per-row contribution of a count aggregator; Raised when evaluating it on
\* the row raises. A row the filter rejects does not evaluate the aggregator.
Raised == 0 - 1

\* The fold stopped after the element at position i.
FoldMissingFirst(elems, name, i) ==
    IF i > Len(elems) THEN 0
    ELSE IF IsNA(GetField(elems[i], name)) THEN 1 ELSE 0

RECURSIVE FoldMissing(_, _, _)
FoldMissing(elems, name, i) ==
    IF i > Len(elems) THEN 0
    ELSE (IF IsNA(GetField(elems[i], name)) THEN 1 ELSE 0)
         + FoldMissing(elems, name, i + 1)

RowCount(agg, row) ==
    LET g == EvalBool(agg.guard, row)
    IN IF g = "E" THEN Raised
       ELSE IF g = "T" THEN 0
       ELSE IF agg.kind = "count_where" THEN
            LET p == EvalBool(agg.pred, row)
            IN IF p = "E" THEN Raised ELSE IF p = "T" THEN 1 ELSE 0
       ELSE LET a == Eval(agg.arr, row)
            IN IF IsErr(a) THEN Raised
               ELSE IF a.t # "A" THEN 0  \* agg.sum skips a missing summand
               ELSE FoldMissing(a.c, agg.name, 1)

\* 1 when the row's key is collected, 0 when not, Raised on an error.
RowCollect(agg, row) ==
    LET g == EvalBool(agg.guard, row)
    IN IF g = "E" THEN Raised
       ELSE IF g = "T" THEN 0
       ELSE LET p == EvalBool(agg.pred, row)
            IN IF p = "E" THEN Raised ELSE IF p = "T" THEN 1 ELSE 0

\* ht.key evaluated on a row: the struct of the key fields.
KeyStruct(keys, row) ==
    StructVal([i \in 1..Len(keys) |-> [n |-> keys[i], val |-> GetField(row, keys[i])]])

\* Python values: a str, or None for a missing leaf.
PyStr(s) == [py |-> "str", s |-> s]

PyNone == [py |-> "None", s |-> ""]

\* struct_to_dict on a Struct of leaves: {k: struct_to_dict(getattr(struct, k))}.
struct_to_dict(struct) ==
    [i \in 1..Len(struct.c) |->
        [k |-> struct.c[i].n,
         v |-> IF IsNA(struct.c[i].val) THEN PyNone ELSE PyStr(struct.c[i].val.v)]]

RECURSIVE SumRows(_, _, _)
SumRows(agg, rows, i) ==
    IF i > Len(rows) THEN 0
    ELSE RowCount(agg, rows[i]) + SumRows(agg, rows, i + 1)

RECURSIVE CollectRows(_, _, _)
CollectRows(agg, rows, i) ==
    IF i > Len(rows) THEN <<>>
    ELSE (IF RowCollect(agg, rows[i]) = 1
          THEN <<struct_to_dict(KeyStruct(agg.keys, rows[i]))>> ELSE <<>>)
         \o CollectRows(agg, rows, i + 1)

\* Some aggregator raises on some row: the whole aggregation raises.
AggregationRaises(table, w) ==
    \E r \in 1..Len(table.rows) :
        \/ \E j \in 1..Len(w.results) :
               RowCount(w.results[j].v, table.rows[r]) = Raised
        \/ \E j \in 1..Len(w.missing_keys) :
               RowCollect(w.missing_keys[j].v, table.rows[r]) = Raised

NoResult == [raised |-> "", message |-> "", counts |-> <<>>, missing_keys |-> <<>>]

\* ht.aggregate(hl.struct(counts=..., missing_keys=...)) over the walker's
\* aggregators w, through struct_to_dict (lines 151-157).
aggregate(table, w) ==
    IF AggregationRaises(table, w)
    THEN [raised |-> "HailUserError",
          message |-> "array index out of bounds",
          counts |-> <<>>, missing_keys |-> <<>>]
    ELSE [raised |-> "none", message |-> "",
          counts |-> [j \in 1..Len(w.results) |->
              [k |-> w.results[j].k,
               v |-> SumRows(w.results[j].v, table.rows, 1)]],
          missing_keys |-> [j \in 1..Len(w.missing_keys) |->
              [k |-> w.missing_keys[j].k,
               v |-> CollectRows(w.missing_keys[j].v, table.rows, 1)]]]

\* count_missing_fields_with_keys(ht), lines 149-157.
count_missing_fields_with_keys(table) ==
    aggregate(table,
              count_missing_and_keys(StructExpr(table.schema, <<>>), BoolFalse,
                                     table.key))

\* ------------------------------------------------------------------ tables
\* rich_table.py: the sample table's row type (data_type) and its two rows.
DetailedStruct == TStruct(<<Fld("long_field1", TScalar), Fld("long_field2", TScalar)>>)

InnerArrayOfStructs ==
    TArrayStruct(<<Fld("inner_n", TScalar), Fld("inner_o", TScalar),
                   Fld("inner_s", TStruct(<<Fld("another_field", TScalar)>>))>>)

RichSchema ==
    <<Fld("k1", TScalar), Fld("k2", TScalar),
      Fld("a", TScalar), Fld("b", TScalar), Fld("c", TScalar), Fld("d", TScalar),
      Fld("e", TScalar), Fld("f", TScalar), Fld("g", TScalar), Fld("h", TScalar),
      Fld("i", TScalar), Fld("complex_dictionary", TScalar), Fld("k", TScalar),
      Fld("detailed_struct", DetailedStruct),
      Fld("array_of_structs",
          TArrayStruct(<<Fld("long_n", TScalar), Fld("long_o", TScalar),
                         Fld("inner_array_of_structs", InnerArrayOfStructs)>>)),
      Fld("nested_complex_struct",
          TStruct(<<Fld("q", TScalar), Fld("detailed_struct", DetailedStruct),
                    Fld("inner_struct",
                        TStruct(<<Fld("long_s", TScalar), Fld("long_t", TScalar)>>))>>)),
      Fld("optional_field", TScalar),
      Fld("deeply_nested_struct",
          TStruct(<<Fld("outer_field",
                        TStruct(<<Fld("inner_field1", TScalar),
                                  Fld("inner_field2", TScalar)>>))>>))>>

E(n, val) == [n |-> n, val |-> val]

X == Leaf("x")

Inner(inner_n, another_field) ==
    StructVal(<<E("inner_n", inner_n), E("inner_o", X),
                E("inner_s", StructVal(<<E("another_field", another_field)>>))>>)

Outer(long_n, inner) ==
    StructVal(<<E("long_n", long_n), E("long_o", X),
                E("inner_array_of_structs", ArrayVal(inner))>>)

Scalars13(k1, k2) ==
    <<E("k1", Leaf(k1)), E("k2", Leaf(k2)), E("a", X), E("b", X), E("c", X),
      E("d", X), E("e", X), E("f", X), E("g", X), E("h", X), E("i", X),
      E("complex_dictionary", X), E("k", X)>>

RichRow1 ==
    StructVal(Scalars13("key1", "key2") \o
      <<E("detailed_struct",
          StructVal(<<E("long_field1", X), E("long_field2", X)>>)),
        E("array_of_structs",
          ArrayVal(<<Outer(X, <<Inner(NA, X), Inner(X, X)>>), Outer(X, <<>>)>>)),
        E("nested_complex_struct",
          StructVal(<<E("q", X),
                      E("detailed_struct",
                        StructVal(<<E("long_field1", X), E("long_field2", X)>>)),
                      E("inner_struct",
                        StructVal(<<E("long_s", X), E("long_t", X)>>))>>)),
        E("optional_field", X),
        E("deeply_nested_struct",
          StructVal(<<E("outer_field",
                        StructVal(<<E("inner_field1", X),
                                    E("inner_field2", NA)>>))>>))>>)

RichRow2 ==
    StructVal(Scalars13("key3", "key4") \o
      <<E("detailed_struct",
          StructVal(<<E("long_field1", NA), E("long_field2", X)>>)),
        E("array_of_structs",
          ArrayVal(<<Outer(X, <<Inner(X, NA), Inner(X, X)>>),
                     Outer(NA, <<Inner(X, X), Inner(X, X)>>)>>)),
        E("nested_complex_struct",
          StructVal(<<E("q", X),
                      E("detailed_struct",
                        StructVal(<<E("long_field1", NA), E("long_field2", X)>>)),
                      E("inner_struct",
                        StructVal(<<E("long_s", X), E("long_t", NA)>>))>>)),
        E("optional_field", NA),
        E("deeply_nested_struct", NA)>>)

\* ht = hl.Table.parallelize(hl.literal(data, data_type), key=["k1", "k2"])
RichTable ==
    [schema |-> RichSchema, key |-> <<"k1", "k2">>, rows |-> <<RichRow1, RichRow2>>]

\* ------------------------------------------------------- bounded tables
\* The number of array elements a value holds, nested ones included.
RECURSIVE Cells(_)
RECURSIVE CellsFrom(_, _)
CellsFrom(c, i) ==
    IF i > Len(c) THEN 0
    ELSE (IF "val" \in DOMAIN c[i] THEN Cells(c[i].val) ELSE 1 + Cells(c[i]))
         + CellsFrom(c, i + 1)

Cells(val) == IF val.t \in {"R", "A"} THEN CellsFrom(val.c, 1) ELSE 0

\* Every value of a type that holds at most n array elements; the elements of
\* an array are present structs, as in rich_table.py.
RECURSIVE GenValue(_, _)
RECURSIVE GenEntries(_, _)
RECURSIVE GenElems(_, _)
GenValue(type, n) ==
    IF type.kind = "Struct"
    THEN {NA} \cup {StructVal(e) : e \in GenEntries(type.fields, n)}
    ELSE IF type.kind = "ArrayStruct"
    THEN {NA} \cup {ArrayVal(l) : l \in GenElems(type.fields, n)}
    ELSE {NA, X}

GenEntries(fields, n) ==
    IF fields = <<>> THEN {<<>>}
    ELSE UNION {
        {<<E(Head(fields).name, val)>> \o rest :
            val \in {x \in GenValue(Head(fields).type, n) : Cells(x) = c},
            rest \in GenEntries(Tail(fields), n - c)} :
        c \in 0..n}

GenElems(fields, n) ==
    {<<>>} \cup
    (IF n = 0 THEN {}
     ELSE UNION {
        {<<StructVal(e)>> \o rest :
            e \in {x \in GenEntries(fields, n - 1) : CellsFrom(x, 1) = c},
            rest \in GenElems(fields, n - 1 - c)} :
        c \in 0..(n - 1)})

\* Row bodies (the fields after the key) of at most k rows, n elements in all.
RECURSIVE GenBodies(_, _, _)
GenBodies(fields, k, n) ==
    {<<>>} \cup
    (IF k = 0 THEN {}
     ELSE UNION {
        {<<e>> \o rest :
            e \in {x \in GenEntries(fields, n) : CellsFrom(x, 1) = c},
            rest \in GenBodies(fields, k - 1, n - c)} :
        c \in 0..n})

KeyName(i) == "key" \o ToString(i)

\* A table keyed by k1; Hail keeps the rows in key order.
KeyedTable(fields, bodies) ==
    [schema |-> <<Fld("k1", TScalar)>> \o fields,
     key |-> <<"k1">>,
     rows |-> [i \in 1..Len(bodies) |->
                  StructVal(<<E("k1", Leaf(KeyName(i)))>> \o bodies[i])]]

\* The row types the tables are drawn over: structs nested three deep, an
\* array of structs (at top level and inside a struct), a struct and an
\* array of structs inside an array element.
SchemaStructs ==
    <<Fld("deeply_nested_struct",
          TStruct(<<Fld("outer_field",
                        TStruct(<<Fld("inner_field1", TScalar),
                                  Fld("inner_field2", TScalar)>>))>>))>>

SchemaArray ==
    <<Fld("array_of_structs", TArrayStruct(<<Fld("long_n", TScalar)>>))>>

SchemaArrayInStruct ==
    <<Fld("nested_complex_struct",
          TStruct(<<Fld("array_of_structs",
                        TArrayStruct(<<Fld("long_n", TScalar)>>))>>))>>

SchemaStructInArray ==
    <<Fld("array_of_structs",
          TArrayStruct(<<Fld("inner_s",
                             TStruct(<<Fld("another_field", TScalar)>>))>>))>>

SchemaArrayInArray ==
    <<Fld("array_of_structs",
          TArrayStruct(<<Fld("inner_array_of_structs",
                             TArrayStruct(<<Fld("inner_n", TScalar)>>))>>))>>

Schemas ==
    {SchemaStructs, SchemaArray, SchemaArrayInStruct, SchemaStructInArray,
     SchemaArrayInArray}

\* The sample table and every bounded table over the given row types.
Tables(schemas) ==
    {RichTable} \cup
    UNION {{KeyedTable(s, b) : b \in GenBodies(s, MaxRows, MaxCells)} : s \in schemas}

\* -------------------------------------------------------- test fixtures
\* tests/test_missingness.py line 15: the table with every empty top-level
\* array of structs replaced by a missing value,
\* ht.annotate(j=hl.or_missing(hl.len(ht.j) > 0, ht.j)).
or_missing_nonempty(val) ==
    IF val.t = "A" /\ Len(val.c) > 0 THEN val ELSE NA

annotate(table) ==
    [table EXCEPT !.rows =
        [r \in 1..Len(table.rows) |->
            StructVal([i \in 1..Len(table.schema) |->
                IF table.schema[i].type.kind = "ArrayStruct"
                THEN E(table.schema[i].name,
                       or_missing_nonempty(table.rows[r].c[i].val))
                ELSE table.rows[r].c[i]])]]

\* ---------------------------------------------------- state and actions
NoTable == [schema |-> <<>>, key |-> <<>>, rows |-> <<>>]

Absent == <<>>

NoReport ==
    [ht |-> NoTable, cache_path |-> "", steps |-> <<>>, raised |-> "",
     cause |-> NoResult, df |-> <<>>]

InitWalk ==
    /\ ht \in Tables(Schemas)
    /\ missing = NoResult
    /\ report = NoReport
    /\ cache = Absent

\* test_bad_table_raises_error / missing_fields_with_keys_result: a direct
\* call of count_missing_fields_with_keys on the table in scope.
Aggregate ==
    /\ missing' = count_missing_fields_with_keys(ht)
    /\ UNCHANGED <<ht, report, cache>>

\* The hail_table fixture replaces the table in scope by the annotated one.
Annotate ==
    /\ ht' = annotate(ht)
    /\ missing' = NoResult
    /\ UNCHANGED <<report, cache>>

NextWalk == Aggregate \/ Annotate

SpecWalk == InitWalk /\ [][NextWalk]_vars

\* ------------------------------------------- reading a table directly
\* What the claims say about a table is read off its rows here, without the
\* expressions and aggregators of the walker.
RECURSIVE Join(_)
Join(p) == IF Len(p) = 1 THEN p[1] ELSE p[1] \o "." \o Join(Tail(p))

FieldsOf(fields) == {fields[i] : i \in 1..Len(fields)}

\* Paths from the row that run through struct fields only (the last field
\* may be of any type).
RECURSIVE StructPaths(_)
StructPaths(fields) ==
    {<<f.name>> : f \in FieldsOf(fields)} \cup
    UNION {{<<f.name>> \o p : p \in StructPaths(f.type.fields)} :
           f \in {x \in FieldsOf(fields) : x.type.kind = "Struct"}}

FieldNamed(fields, name) == CHOOSE f \in FieldsOf(fields) : f.name = name

RECURSIVE TypeAt(_, _)
TypeAt(fields, p) ==
    IF Len(p) = 1 THEN FieldNamed(fields, p[1]).type
    ELSE TypeAt(FieldNamed(fields, p[1]).type.fields, Tail(p))

\* Paths of the array-of-struct fields that hold one value per row.
ArraySites(fields) ==
    {p \in StructPaths(fields) : TypeAt(fields, p).kind = "ArrayStruct"}

Child(val, name) ==
    val.c[CHOOSE i \in 1..Len(val.c) : val.c[i].n = name].val

\* "present", "missing" (the value at p is missing and every struct above it
\* is present) or "ancestor_missing" (a struct strictly above p is missing).
RECURSIVE Status(_, _)
Status(val, p) ==
    LET child == Child(val, p[1])
    IN IF Len(p) = 1 THEN (IF IsNA(child) THEN "missing" ELSE "present")
       ELSE IF IsNA(child) THEN "ancestor_missing"
       ELSE Status(child, Tail(p))

RECURSIVE ValueAt(_, _)
ValueAt(val, p) ==
    IF Len(p) = 0 THEN val ELSE ValueAt(Child(val, p[1]), Tail(p))

RowIds == 1..Len(ht.rows)

RowKey(table, r) ==
    [i \in 1..Len(table.key) |->
        [k |-> table.key[i], v |-> PyStr(Child(table.rows[r], table.key[i]).v)]]

Occurs(seq, x) == Cardinality({i \in 1..Len(seq) : seq[i] = x})

\* An element lacks field g: the element is null or its g is.
ElemLacks(el, g) == IsNA(el) \/ IsNA(Child(el, g))

ElemsLacking(arr, g) ==
    IF arr.t # "A" THEN 0
    ELSE Cardinality({j \in 1..Len(arr.c) : ElemLacks(arr.c[j], g)})

RECURSIVE SumOver(_, _)
SumOver(f, S) ==
    IF S = {} THEN 0
    ELSE LET x == CHOOSE y \in S : TRUE IN f[x] + SumOver(f, S \ {x})

Computed == missing.raised = "none"

Count(name) == DictGet(missing.counts, name)

KeysOf(name) == DictGet(missing.missing_keys, name)

\* C1: double-count suppression over struct nesting. For every path through
\* struct fields only, a row is counted and keyed at the path exactly when the
\* value there is missing and every struct above it is present; a row with a
\* missing struct above the path is neither counted nor keyed there.
C1_DoubleCountSuppression ==
    Computed =>
        \A p \in StructPaths(ht.schema) :
            LET miss == {r \in RowIds : Status(ht.rows[r], p) = "missing"}
            IN /\ Count(Join(p)) = Cardinality(miss)
               /\ \A r \in RowIds :
                      Occurs(KeysOf(Join(p)), RowKey(ht, r))
                          = IF r \in miss THEN 1 ELSE 0

\* A computed result over a row whose outermost struct of a three-deep path
\* is missing.
C1_Witness ==
    /\ Computed
    /\ \E p \in StructPaths(ht.schema) : \E r \in RowIds :
           /\ Len(p) >= 3
           /\ Status(ht.rows[r], <<p[1]>>) = "missing"
           /\ Status(ht.rows[r], p) = "ancestor_missing"
           /\ Count(Join(<<p[1]>>)) >= 1

\* Names of the paths whose count is a sum over array elements: the direct
\* subfields of an array of structs that is a field of the row or of a struct
\* (also of a struct inside an array element).
RECURSIVE SummedPaths(_)
SummedPaths(fields) ==
    UNION {
        IF f.type.kind = "Struct"
        THEN {<<f.name>> \o p : p \in SummedPaths(f.type.fields)}
        ELSE IF f.type.kind = "ArrayStruct"
        THEN {<<f.name, g.name>> : g \in FieldsOf(f.type.fields)} \cup
             UNION {{<<f.name, g.name>> \o p : p \in SummedPaths(g.type.fields)} :
                    g \in FieldsOf(f.type.fields)}
        ELSE {} :
        f \in FieldsOf(fields)}

SummedNames == {Join(p) : p \in SummedPaths(ht.schema)}

ScalarFieldsOf(type) == {g \in FieldsOf(type.fields) : g.type.kind = "Scalar"}

NestedFieldsOf(type) ==
    {g \in FieldsOf(type.fields) : g.type.kind \in {"Struct", "ArrayStruct"}}

\* C4 as claimed: for an array of structs f with scalar subfield g, a row in
\* which every struct above f is present has its key in missing_keys[f.g]
\* exactly once if f is missing or any element of f lacks g, and not at all
\* otherwise.
C4_ListKeysAnyElement ==
    Computed =>
        \A p \in ArraySites(ht.schema) :
        \A g \in ScalarFieldsOf(TypeAt(ht.schema, p)) :
        \A r \in RowIds :
            Status(ht.rows[r], p) # "ancestor_missing" =>
                Occurs(KeysOf(Join(p \o <<g.name>>)), RowKey(ht, r))
                    = IF \/ Status(ht.rows[r], p) = "missing"
                         \/ ElemsLacking(ValueAt(ht.rows[r], p), g.name) >= 1
                      THEN 1 ELSE 0

\* Some element of the array arr holds a present g whose h is missing (g a
\* struct), or a present g one of whose elements lacks h (g an array).
SomeElemLacksNested(arr, g, h) ==
    \E j \in 1..Len(arr.c) :
        /\ ~IsNA(arr.c[j])
        /\ LET gv == Child(arr.c[j], g.name)
           IN /\ ~IsNA(gv)
              /\ IF g.type.kind = "Struct" THEN IsNA(Child(gv, h))
                 ELSE ElemsLacking(gv, h) >= 1

\* C5 as claimed: for an array of structs f whose element field g is a struct
\* or an array of structs with field h, a row in which f and the structs above
\* it are present is counted and keyed at f.g.h if any element of f, at
\* whichever position, has g.h missing.
C5_NestedPerElement ==
    Computed =>
        \A p \in ArraySites(ht.schema) :
        \A g \in NestedFieldsOf(TypeAt(ht.schema, p)) :
        \A h \in FieldsOf(g.type.fields) :
            LET name == Join(p \o <<g.name, h.name>>)
                hit == {r \in RowIds :
                           /\ Status(ht.rows[r], p) = "present"
                           /\ SomeElemLacksNested(ValueAt(ht.rows[r], p), g, h.name)}
            IN /\ Count(name) >= Cardinality(hit)
               /\ \A r \in hit : Occurs(KeysOf(name), RowKey(ht, r)) >= 1

\* C6: for an array of structs f (one value per row) with scalar subfield g,
\* counts[f.g] is the sum, over the rows in which no struct above f is
\* missing, of the number of elements of f that lack g; a row in which f or a
\* struct above it is missing adds 0.
C6_ListElementCount ==
    Computed =>
        \A p \in ArraySites(ht.schema) :
        \A g \in ScalarFieldsOf(TypeAt(ht.schema, p)) :
            Count(Join(p \o <<g.name>>))
                = SumOver([r \in RowIds |->
                              IF Status(ht.rows[r], p) = "present"
                              THEN ElemsLacking(ValueAt(ht.rows[r], p), g.name)
                              ELSE 0],
                          RowIds)

\* A computed result in which one row's array has two elements lacking g and
\* another row's array is missing.
C6_Witness ==
    /\ Computed
    /\ \E p \in ArraySites(ht.schema) :
       \E g \in ScalarFieldsOf(TypeAt(ht.schema, p)) :
       \E r1, r2 \in RowIds :
           /\ Status(ht.rows[r1], p) = "present"
           /\ ElemsLacking(ValueAt(ht.rows[r1], p), g.name) = 2
           /\ Status(ht.rows[r2], p) = "missing"
           /\ Count(Join(p \o <<g.name>>)) = 2

RECURSIVE HasEmptyArray(_)
HasEmptyArray(val) ==
    \/ val.t = "A" /\ Len(val.c) = 0
    \/ /\ val.t = "A"
       /\ \E j \in 1..Len(val.c) : HasEmptyArray(val.c[j])
    \/ /\ val.t = "R"
       /\ \E j \in 1..Len(val.c) : HasEmptyArray(val.c[j].val)

\* C7 as claimed: on every table in which some row holds an empty (present)
\* array of structs at any position, count_missing_fields_with_keys raises
\* the array-index-out-of-bounds error and returns no counts.
C7_EmptyListRaises ==
    (missing.raised # "" /\ \E r \in RowIds : HasEmptyArray(ht.rows[r])) =>
        /\ missing.raised = "HailUserError"
        /\ missing.message = "array index out of bounds"
        /\ missing.counts = <<>>

\* ------------------------------------------------------ the data frame
\* Python lists and floats as the data frame holds them. A float is kept as
\* a reduced fraction; 0/0 is NaN.
PyList(items) == [py |-> "list", items |-> items]

RECURSIVE Gcd(_, _)
Gcd(a, b) == IF b = 0 THEN a ELSE Gcd(b, a % b)

NaN == [py |-> "float", num |-> 0, den |-> 0]

PyFloat(num, den) ==
    IF den = 0 THEN NaN
    ELSE [py |-> "float", num |-> num \div Gcd(num, den), den |-> den \div Gcd(num, den)]

\* df["missing_percent"] = (df["counts"] / total_rows) * 100, line 261.
MissingPercentInverted(counts, total_rows) == PyFloat(total_rows * 100, counts)

MissingPercent(counts, total_rows) == PyFloat(counts * 100, total_rows)

Columns == <<"field", "counts", "missing_keys", "missing_percent">>

\* pd.DataFrame({...}) of lines 251-257 with the percent column of line 261.
DataFrame(result, total_rows) ==
    [columns |-> Columns,
     rows |-> [i \in 1..Len(result.counts) |->
        [field |-> DictKeys(result.counts)[i],
         counts |-> DictValues(result.counts)[i],
         missing_keys |-> PyList(DictValues(result.missing_keys)[i]),
         missing_percent |->
             MissingPercent(DictValues(result.counts)[i], total_rows)]]]

NoDf == <<>>

\* ---------------------------------------------------------- the CSV file
\* repr() of the Python values a missing_keys cell holds.
ReprValue(val) == IF val.py = "None" THEN "None" ELSE "'" \o val.s \o "'"

RECURSIVE ReprItems(_, _)
ReprItems(d, i) ==
    IF i > Len(d) THEN ""
    ELSE (IF i > 1 THEN ", " ELSE "")
         \o "'" \o d[i].k \o "': " \o ReprValue(d[i].v)
         \o ReprItems(d, i + 1)

ReprDict(d) == "{" \o ReprItems(d, 1) \o "}"

RECURSIVE ReprDicts(_, _)
ReprDicts(l, i) ==
    IF i > Len(l) THEN ""
    ELSE (IF i > 1 THEN ", " ELSE "") \o ReprDict(l[i]) \o ReprDicts(l, i + 1)

\* str() of a cell as to_csv writes it: a list becomes its repr text.
CellText(val) ==
    IF val.py = "list" THEN "[" \o ReprDicts(val.items, 1) \o "]" ELSE val.s

\* A float cell's text: the shortest text that reads back as the same float
\* (an empty cell for NaN).
FloatText(x) == [txt |-> "float", num |-> x.num, den |-> x.den]

\* df.to_csv(str(cache_path), index=False): a header and one text line per row.
to_csv(df) ==
    [header |-> df.columns,
     lines |-> [i \in 1..Len(df.rows) |->
        [field |-> df.rows[i].field,
         counts |-> ToString(df.rows[i].counts),
         missing_keys |-> CellText(df.rows[i].missing_keys),
         missing_percent |-> FloatText(df.rows[i].missing_percent)]]]

\* The integer a cell of digits reads as.
ParseInt(s) == CHOOSE n \in 0..(10 ^ Len(s)) : ToString(n) = s

\* pd.read_csv(str(cache_path)): integer text is read as an integer, float
\* text as a float, any other text (the missing_keys column) as a str.
read_csv(file) ==
    [columns |-> file.header,
     rows |-> [i \in 1..Len(file.lines) |->
        [field |-> file.lines[i].field,
         counts |-> ParseInt(file.lines[i].counts),
         missing_keys |-> PyStr(file.lines[i].missing_keys),
         missing_percent |->
             [py |-> "float", num |-> file.lines[i].missing_percent.num,
              den |-> file.lines[i].missing_percent.den]]]]

\* ------------------------------------------------- MissingnessReport(...)
NoPath == ""

CachePath == "cache/missingness.csv"

\* What the engine can do to an aggregation besides evaluating it: nothing,
\* a HailUserError that is not the index error, or a failure that is no
\* HailUserError at all.
Faults == {"none", "HailUserError", "FatalError"}

EngineFailure(fault) ==
    [raised |-> fault,
     message |-> IF fault = "HailUserError" THEN "user error" ELSE "engine failure",
     counts |-> <<>>, missing_keys |-> <<>>]

\* "array index out of bounds" in str(hail_err)
MentionsOutOfBounds(message) == message = "array index out of bounds"

\* Every HailUserError taken for the index error.
ClassifyAllAsIndexError(failure) ==
    IF failure.raised = "HailUserError" THEN "ValueError" ELSE "RuntimeError"

\* The except clauses of lines 232-249: the exception that leaves the call.
Classify(failure) ==
    IF failure.raised = "HailUserError"
    THEN IF MentionsOutOfBounds(failure.message) THEN "ValueError"
         ELSE "HailUserError"  \* the bare raise of line 242
    ELSE "RuntimeError"

Outcome(raised, cause, df, steps, file) ==
    [raised |-> raised, cause |-> cause, df |-> df, steps |-> steps, file |-> file]

\* The frame is written to the cache location before the rows are counted.
assemble_write_first(got, self_ht, cache_path, file, count_fails, df) ==
    IF got.raised # "none"
    THEN Outcome(Classify(got), got, NoDf, <<"aggregate">>, file)
    ELSE IF count_fails
    THEN Outcome("FatalError", NoResult, NoDf, <<"aggregate", "mkdir", "to_csv", "count">>,
                 IF cache_path # NoPath THEN to_csv(df) ELSE file)
    ELSE IF cache_path # NoPath
    THEN Outcome("none", NoResult, df,
                 <<"aggregate", "mkdir", "to_csv", "count">>, to_csv(df))
    ELSE Outcome("none", NoResult, df, <<"aggregate", "count">>, file)

\* Lines 251-269: the frame of a successful aggregation, the row count, the
\* percent column and the cache write.
assemble(got, self_ht, cache_path, file, count_fails, df) ==
    IF got.raised # "none"
    THEN Outcome(Classify(got), got, NoDf, <<"aggregate">>, file)
    ELSE IF count_fails
    THEN Outcome("FatalError", NoResult, NoDf, <<"aggregate", "count">>, file)
    ELSE IF cache_path # NoPath
    THEN Outcome("none", NoResult, df,
                 <<"aggregate", "count", "mkdir", "to_csv">>, to_csv(df))
    ELSE Outcome("none", NoResult, df, <<"aggregate", "count">>, file)

\* Lines 230-269: the aggregation (or the engine's failure of it) and what
\* follows it.
compute_df(got, self_ht, cache_path, file, count_fails) ==
    assemble(got, self_ht, cache_path, file, count_fails,
             DataFrame(got, Len(self_ht.rows)))

\* The table is looked at before the cache: no table, no report.
load_or_compute_df_table_first(self_ht, cache_path, file, fault, count_fails) ==
    IF self_ht = NoTable
    THEN Outcome("Exception", NoResult, NoDf, <<>>, file)
    ELSE IF cache_path # NoPath /\ file # Absent
    THEN Outcome("none", NoResult, read_csv(file), <<"read_csv">>, file)
    ELSE compute_df(IF fault = "none" THEN count_missing_fields_with_keys(self_ht)
                    ELSE EngineFailure(fault),
                    self_ht, cache_path, file, count_fails)

\* The table is never looked at: without a cache the aggregation is started
\* on whatever was passed.
load_or_compute_df_unchecked(self_ht, cache_path, file, fault, count_fails) ==
    IF cache_path # NoPath /\ file # Absent
    THEN Outcome("none", NoResult, read_csv(file), <<"read_csv">>, file)
    ELSE compute_df(IF fault = "none" THEN count_missing_fields_with_keys(self_ht)
                    ELSE EngineFailure(fault),
                    self_ht, cache_path, file, count_fails)

\* _load_or_compute_df, lines 201-269. file is the content at cache_path
\* before the call; the outcome holds the exception that leaves the call (or
\* "none"), its __cause__, the frame, the steps taken and the file after.
load_or_compute_df(self_ht, cache_path, file, fault, count_fails) ==
    IF cache_path # NoPath /\ file # Absent
    THEN Outcome("none", NoResult, read_csv(file), <<"read_csv">>, file)
    ELSE IF self_ht = NoTable
    THEN Outcome("Exception", NoResult, NoDf, <<>>, file)
    ELSE compute_df(IF fault = "none" THEN count_missing_fields_with_keys(self_ht)
                    ELSE EngineFailure(fault),
                    self_ht, cache_path, file, count_fails)

\* The row types of the tables the report is built over.
BuilderSchemas == {SchemaStructs, SchemaArray}

Init ==
    /\ ht \in Tables(BuilderSchemas)
    /\ missing = NoResult
    /\ report = NoReport
    /\ cache = Absent

\* __init__, lines 198-199: self.ht = ht; self.df = the outcome's frame.
construct(table, cache_path, out) ==
    /\ report' = [ht |-> table, cache_path |-> cache_path,
                  steps |-> out.steps, raised |-> out.raised,
                  cause |-> out.cause, df |-> out.df]
    /\ cache' = out.file
    /\ UNCHANGED <<ht, missing>>

\* MissingnessReport(ht or None, cache_path), lines 182-199.
Build(table, cache_path, fault, count_fails) ==
    construct(table, cache_path,
              load_or_compute_df(table, cache_path, cache, fault, count_fails))

\* hl.Table.parallelize (rich_table.py line 145): a new table, of any of the
\* row types and still without rows, comes into scope.
Parallelize ==
    /\ \E s \in BuilderSchemas : ht' = KeyedTable(s, <<>>)
    /\ UNCHANGED <<missing, report, cache>>

\* The engine can fail only where it is called: an aggregation needs a
\* table (line 223), the row count a finished aggregation (line 259).
Next ==
    \/ \E table \in {ht, NoTable}, cache_path \in {NoPath, CachePath},
          fault \in Faults, count_fails \in BOOLEAN :
           /\ table = NoTable => fault = "none"
           /\ (table = NoTable \/ fault # "none") => ~count_fails
           /\ Build(table, cache_path, fault, count_fails)
    \/ Annotate
    \/ Parallelize

Spec == Init /\ [][Next]_vars

\* --------------------------------------------- the report, read directly
\* The report in hand was computed (not loaded) and no exception left the
\* constructor.
ReportComputed ==
    /\ report.raised = "none"
    /\ Len(report.steps) > 0
    /\ report.steps[1] = "aggregate"

TotalRows == Len(report.ht.rows)

ReportSummedNames == {Join(p) : p \in SummedPaths(report.ht.schema)}

InPercentRange(x) == x.den > 0 /\ 0 <= x.num /\ x.num <= 100 * x.den

\* C3 as claimed: in every computed report every field path has
\* 0 <= counts <= total_rows, and over a table that has rows its
\* missing_percent lies in 0..100, paths summed over array elements included.
C3_CountBound ==
    ReportComputed =>
        \A i \in 1..Len(report.df.rows) :
            /\ 0 <= report.df.rows[i].counts
            /\ report.df.rows[i].counts <= TotalRows
            /\ TotalRows > 0 => InPercentRange(report.df.rows[i].missing_percent)

\* C3 amended: every count is at least 0; for every field path whose count is
\* not summed over the elements of an array of structs, counts <= total_rows
\* and missing_percent lies in 0..100 when the table has rows, and is NaN
\* when it has none.
C3_CountBoundRowPaths ==
    ReportComputed =>
        \A i \in 1..Len(report.df.rows) :
            /\ 0 <= report.df.rows[i].counts
            /\ report.df.rows[i].field \notin ReportSummedNames =>
                /\ report.df.rows[i].counts <= TotalRows
                /\ IF TotalRows = 0
                   THEN report.df.rows[i].missing_percent = NaN
                   ELSE InPercentRange(report.df.rows[i].missing_percent)

\* A computed report over two rows in which a path counted per row is missing
\* in exactly one of them (50 percent).
C3_Witness ==
    /\ ReportComputed
    /\ TotalRows = 2
    /\ \E i \in 1..Len(report.df.rows) :
           /\ report.df.rows[i].field \notin ReportSummedNames
           /\ report.df.rows[i].counts = 1
           /\ report.df.rows[i].missing_percent = PyFloat(50, 1)

\* The aggregation pass of the report in hand failed.
AggregationFailed == report.steps = <<"aggregate">> /\ report.raised # "none"

C9_CacheShortCircuit ==
    [][(/\ cache # Absent
        /\ report' # report
        /\ report'.cache_path # NoPath)
       => /\ report'.raised = "none"
          /\ report'.steps = <<"read_csv">>
          /\ report'.df = read_csv(cache)
          /\ cache' = cache]_vars

\* A report loaded from the cache for a table argument with a top-level field
\* the cached report has no row for: the cache came from another schema.
C9_Witness ==
    /\ report.steps = <<"read_csv">>
    /\ report.ht # NoTable
    /\ \E i \in 1..Len(report.ht.schema) :
           \A j \in 1..Len(report.df.rows) :
               report.df.rows[j].field # report.ht.schema[i].name

\* C10 as claimed: a report computed over a table with rows and written to a
\* new cache location, then built again for the same table from that
\* location, comes back with the same frame: field order, counts, percentages
\* and missing_keys as lists of key records.
C10_RoundTrip ==
    [][(/\ report.raised = "none"
        /\ report.steps = <<"aggregate", "count", "mkdir", "to_csv">>
        /\ Len(report.ht.rows) > 0
        /\ report'.steps = <<"read_csv">>
        /\ report'.ht = report.ht
        /\ report'.cache_path = report.cache_path)
       => report'.df = report.df]_vars

\* C11: a build with no table and with no cache location, or with a cache
\* location that holds no file, raises the Exception of line 224 before any
\* aggregation, row count or cache write: no step is taken, no frame is made
\* and the location is left as it was.
C11_FailFast ==
    [][(/\ report' # report
        /\ report'.ht = NoTable
        /\ (report'.cache_path = NoPath \/ cache = Absent))
       => /\ report'.raised = "Exception"
          /\ report'.steps = <<>>
          /\ report'.df = NoDf
          /\ cache' = cache]_vars

\* A build without a table was given a cache location that holds no file
\* and failed.
C11_Witness ==
    /\ report.ht = NoTable
    /\ report.cache_path = CachePath
    /\ report.raised = "Exception"
    /\ cache = Absent

StructFieldsOf(type) == {g \in FieldsOf(type.fields) : g.type.kind = "Struct"}

\* In row r the array at p is present with the structs above it, and the
\* element examined (position 0) has its field g missing.
ElementFieldMissing(r, p, g) ==
    /\ Status(ht.rows[r], p) = "present"
    /\ Len(ValueAt(ht.rows[r], p).c) > 0
    /\ IsNA(Child(ValueAt(ht.rows[r], p).c[1], g))

\* In row r the array at p is present, the element examined holds a present
\* struct g, and g's field h is missing.
ElementNestedMissing(r, p, g, h) ==
    /\ Status(ht.rows[r], p) = "present"
    /\ Len(ValueAt(ht.rows[r], p).c) > 0
    /\ ~IsNA(Child(ValueAt(ht.rows[r], p).c[1], g))
    /\ IsNA(Child(Child(ValueAt(ht.rows[r], p).c[1], g), h))

\* C12 as claimed: for an array of structs f whose element field g is a
\* struct with field h, a row in which f is present and g is missing in the
\* element examined is neither counted in counts[f.g.h] nor keyed in
\* missing_keys[f.g.h]: counts[f.g.h] is the number of rows whose g is
\* present with h missing.
C12_ElementRecordGuard ==
    Computed =>
        \A p \in ArraySites(ht.schema) :
        \A g \in StructFieldsOf(TypeAt(ht.schema, p)) :
        \A h \in FieldsOf(g.type.fields) :
            LET name == Join(p \o <<g.name, h.name>>)
            IN /\ Count(name) = Cardinality({r \in RowIds :
                       ElementNestedMissing(r, p, g.name, h.name)})
               /\ \A r \in RowIds :
                      ElementFieldMissing(r, p, g.name) =>
                          Occurs(KeysOf(name), RowKey(ht, r)) = 0

\* Every dotted path of a row type, through structs and array elements alike.
RECURSIVE AllPaths(_)
AllPaths(fields) ==
    UNION {{<<f.name>>} \cup {<<f.name>> \o p : p \in AllPaths(f.type.fields)} :
           f \in FieldsOf(fields)}

PathNames(fields) == {Join(p) : p \in AllPaths(fields)}

ReportFields(df) == {df.rows[i].field : i \in 1..Len(df.rows)}

\* C13: over any sequence of builds the content at the cache location changes
\* in one way only, from absent to the written frame of a build whose
\* aggregation and row count both succeeded (the complete report: one row
\* for every field path of the table it was given); a build that raises
\* leaves the location as it was, and a location that holds a file is never
\* written again.
C13_CacheWriteDiscipline ==
    [][/\ cache' # cache =>
           /\ cache = Absent
           /\ report'.raised = "none"
           /\ report'.steps = <<"aggregate", "count", "mkdir", "to_csv">>
           /\ report'.cache_path = CachePath
           /\ cache' = to_csv(report'.df)
           /\ ReportFields(report'.df) = PathNames(report'.ht.schema)
           /\ Len(report'.df.rows) = Cardinality(PathNames(report'.ht.schema))
       /\ (report' # report /\ report'.raised # "none") => cache' = cache
       /\ cache # Absent => cache' = cache]_vars

\* The location holds the frame written by the report in hand, which was
\* computed over a table with rows.
C13_Witness ==
    /\ cache # Absent
    /\ report.raised = "none"
    /\ report.steps = <<"aggregate", "count", "mkdir", "to_csv">>
    /\ Len(report.ht.rows) > 0
    /\ cache = to_csv(report.df)

====
